---- MODULE Spec2Model ----
(***************************************************************************)
(* Model of src/agents/pi-tools.abort.ts: combineAbortSignals merges two   *)
(* optional AbortSignals, wrapToolWithAbortSignal binds an ambient signal  *)
(* to a tool's execute.  Signals, functions and tools live in heaps whose  *)
(* indices are the objects' identities; 0 stands for undefined.            *)
(***************************************************************************)
EXTENDS Integers, Sequences, FiniteSets, TLC

\* ---- bounds --------------------------------------------------------------
PathSignals == 7      \* sources plus pairs of signals derived on both paths
NumSources == 3       \* signals the callers own: 1 .. NumSources
MaxSignals == 4       \* sources plus signals derived by combineAbortSignals
MaxFns     == 2       \* the tool's own execute plus wrapped executes
MaxCalls   == 2       \* execute invocations (wrapped and underlying) in a run

undefined == 0

VARIABLES
  signals,      \* heap of AbortSignal objects
  hasAny,       \* typeof AbortSignal.any === "function" in this host
  fns,          \* heap of execute functions: the tool's own and the closures of line 68
  tools,        \* heap of tool objects
  calls,        \* every invocation of an execute: its arguments and its promise
  callCount,    \* callCount[f]: how many times function f was invoked
  last          \* arguments and return value of the direct call of combineAbortSignals or
                \* wrapToolWithAbortSignal made in the latest step, NoReturn after other steps

vars == <<signals, hasAny, fns, tools, calls, callCount, last>>

\* ---- AbortSignal objects -------------------------------------------------
NoError == [name |-> "", message |-> ""]

\* The TypeError of calling x.addEventListener(...) on an object without it.
NotAFunction == [name |-> "TypeError", message |-> "addEventListener is not a function"]

SignalProps == {"aborted", "addEventListener", "removeEventListener"}

\* A pending signal owned by a caller (new AbortController().signal); inst is
\* whether it is an instance of this realm's AbortSignal constructor.
NewSignal(inst) ==
  [aborted |-> FALSE, listeners |-> <<>>, sourceSignals |-> {},
   instanceOf |-> inst, props |-> SignalProps, fired |-> 0,
   path |-> "source", origin |-> <<>>]

\* signal.aborted
Aborted(sigs, s) == sigs[s].aborted

isRealAbortSignal(sigs, obj) ==
  IF ~ sigs[obj].instanceOf
  THEN FALSE
  ELSE /\ "aborted" \in sigs[obj].props
       /\ "addEventListener" \in sigs[obj].props
       /\ "removeEventListener" \in sigs[obj].props

\* Variant that keeps a single listener per target, as an assignment to
\* target.onabort would.
addEventListener_Single(sigs, target, callback, once) ==
  [sigs EXCEPT ![target].listeners = <<[callback |-> callback, once |-> once]>>]

\* target.addEventListener("abort", callback, { once }): a callback already
\* registered on the target is not registered again.
addEventListener(sigs, target, callback, once) ==
  IF \E i \in 1..Len(sigs[target].listeners) : sigs[target].listeners[i].callback = callback
  THEN sigs
  ELSE [sigs EXCEPT ![target].listeners = Append(@, [callback |-> callback, once |-> once])]

\* AbortSignal.any(list): a dependent signal following the (flattened) sources.
AbortSignalAny(sigs, list) ==
  LET flat(s) == IF sigs[s].sourceSignals = {} THEN {s} ELSE sigs[s].sourceSignals
      srcs == UNION {flat(list[i]) : i \in 1..Len(list)}
      res == [aborted |-> \E i \in 1..Len(list) : sigs[list[i]].aborted,
              listeners |-> <<>>, sourceSignals |-> srcs,
              instanceOf |-> TRUE, props |-> SignalProps, fired |-> 0,
              path |-> "native", origin |-> list]
  IN [signals |-> Append(sigs, res), result |-> Len(sigs) + 1, error |-> NoError]

\* new AbortController(): a fresh pending signal of this realm.
NewAbortController(sigs, a, b) ==
  Append(sigs, [NewSignal(TRUE) EXCEPT !.path = "manual", !.origin = <<a, b>>])

\* The elements of a set of signal identities, oldest first.
RECURSIVE Ascending(_)
Ascending(S) ==
  IF S = {}
  THEN <<>>
  ELSE LET m == CHOOSE x \in S : \A y \in S : x <= y
       IN <<m>> \o Ascending(S \ {m})

RECURSIVE SignalAbort(_, _), RunListeners(_, _, _), FireEvents(_, _)

\* Dependent signals of s that are still pending.
PendingDependents(sigs, s) ==
  {d \in DOMAIN sigs : s \in sigs[d].sourceSignals /\ ~ sigs[d].aborted}

\* Each signal of order becomes aborted.
RECURSIVE MarkAborted(_, _)
MarkAborted(sigs, order) ==
  IF order = <<>>
  THEN sigs
  ELSE MarkAborted([sigs EXCEPT ![Head(order)].aborted = TRUE], Tail(order))

\* s followed by its pending dependents, oldest first.
AbortOrder(sigs, s) == <<s>> \o Ascending(PendingDependents(sigs, s))

\* controller.abort() on the controller of signal s: no effect on an aborted
\* signal; otherwise s and its dependents become aborted, then the abort event
\* is dispatched on s and on each dependent.
SignalAbort(sigs, s) ==
  IF sigs[s].aborted
  THEN sigs
  ELSE FireEvents(MarkAborted(sigs, AbortOrder(sigs, s)), AbortOrder(sigs, s))

\* Variant of onAbort that forgets to abort the controller.
onAbort_Noop(sigs, controller) == sigs

\* The abort event is being dispatched on s: its once-listeners are removed.
EventFired(sigs, s) ==
  [sigs EXCEPT ![s].listeners = SelectSeq(@, LAMBDA l : ~ l.once),
               ![s].fired = @ + 1]

\* Variant of onAbort that dispatches the abort event on the derived signal
\* on every invocation instead of going through controller.abort().
onAbort_Redispatch(sigs, controller) ==
  EventFired([sigs EXCEPT ![controller].aborted = TRUE], controller)

\* const onAbort = () => controller.abort();
onAbort(sigs, controller) == SignalAbort(sigs, controller)

\* Invoke the listeners ls[k..] that were registered when the event was fired.
RunListeners(sigs, ls, k) ==
  IF k > Len(ls)
  THEN sigs
  ELSE RunListeners(onAbort(sigs, ls[k].callback), ls, k + 1)

\* Dispatch the abort event on each signal of order, in order.
FireEvents(sigs, order) ==
  IF order = <<>>
  THEN sigs
  ELSE FireEvents(RunListeners(EventFired(sigs, Head(order)),
                               sigs[Head(order)].listeners, 1),
                  Tail(order))

\* ---- combineAbortSignals -------------------------------------------------
\* Variant of lines 48-52 that forgets the listener on b.
ManualCombine_OnlyA(sigs, a, b) ==
  LET withController == NewAbortController(sigs, a, b)
      controller == Len(withController)
  IN [signals |-> addEventListener(withController, a, controller, TRUE),
      result |-> controller, error |-> NoError]

\* Lines 48-52: a new controller whose signal is aborted by a once-listener on
\* each of the two inputs.  The call of addEventListener throws a TypeError on
\* an input that has no such function; a listener already added on a stays.
ManualCombine(sigs, a, b) ==
  LET withController == NewAbortController(sigs, a, b)
      controller == Len(withController)
      onA == addEventListener(withController, a, controller, TRUE)
      onB == addEventListener(onA, b, controller, TRUE)
  IN IF "addEventListener" \notin sigs[a].props
     THEN [signals |-> sigs, result |-> undefined, error |-> NotAFunction]
     ELSE IF "addEventListener" \notin sigs[b].props
     THEN [signals |-> onA, result |-> undefined, error |-> NotAFunction]
     ELSE [signals |-> onB, result |-> controller, error |-> NoError]

\* Variant without the early returns for a single input: a derived signal is
\* built whenever at least one input is present.
combineAbortSignals_AlwaysDerive(sigs, a, b) ==
  IF a = undefined /\ b = undefined
  THEN [signals |-> sigs, result |-> undefined, error |-> NoError]
  ELSE LET withController == NewAbortController(sigs, a, b)
           controller == Len(withController)
           onA == IF a = undefined THEN withController
                  ELSE addEventListener(withController, a, controller, TRUE)
           onB == IF b = undefined THEN onA
                  ELSE addEventListener(onA, b, controller, TRUE)
       IN [signals |-> onB, result |-> controller, error |-> NoError]

\* Variant that tests b.aborted before a.aborted.
combineAbortSignals_BFirst(sigs, a, b) ==
  IF a = undefined /\ b = undefined
  THEN [signals |-> sigs, result |-> undefined, error |-> NoError]
  ELSE IF a # undefined /\ b = undefined
  THEN [signals |-> sigs, result |-> a, error |-> NoError]
  ELSE IF b # undefined /\ a = undefined
  THEN [signals |-> sigs, result |-> b, error |-> NoError]
  ELSE IF Aborted(sigs, b)
  THEN [signals |-> sigs, result |-> b, error |-> NoError]
  ELSE IF Aborted(sigs, a)
  THEN [signals |-> sigs, result |-> a, error |-> NoError]
  ELSE IF hasAny /\ isRealAbortSignal(sigs, a) /\ isRealAbortSignal(sigs, b)
  THEN AbortSignalAny(sigs, <<a, b>>)
  ELSE LET withController == NewAbortController(sigs, a, b)
           controller == Len(withController)
           onA == addEventListener(withController, a, controller, TRUE)
           onB == addEventListener(onA, b, controller, TRUE)
       IN [signals |-> onB, result |-> controller, error |-> NoError]

combineAbortSignals(sigs, a, b) ==
  IF a = undefined /\ b = undefined
  THEN [signals |-> sigs, result |-> undefined, error |-> NoError]
  ELSE IF a # undefined /\ b = undefined
  THEN [signals |-> sigs, result |-> a, error |-> NoError]
  ELSE IF b # undefined /\ a = undefined
  THEN [signals |-> sigs, result |-> b, error |-> NoError]
  ELSE IF Aborted(sigs, a)
  THEN [signals |-> sigs, result |-> a, error |-> NoError]
  ELSE IF Aborted(sigs, b)
  THEN [signals |-> sigs, result |-> b, error |-> NoError]
  ELSE IF hasAny /\ isRealAbortSignal(sigs, a) /\ isRealAbortSignal(sigs, b)
  THEN AbortSignalAny(sigs, <<a, b>>)
  ELSE ManualCombine(sigs, a, b)

\* ---- outcomes of an execute ------------------------------------------------
Pending == [status |-> "pending", result |-> "", error |-> NoError]
Fulfilled(v) == [status |-> "fulfilled", result |-> v, error |-> NoError]
Rejected(e) == [status |-> "rejected", result |-> "", error |-> e]

\* The error of throwAbortError(): new Error("Aborted") named "AbortError".
throwAbortError == [name |-> "AbortError", message |-> "Aborted"]

\* A failure of the tool's own making.
ToolError == [name |-> "Error", message |-> "tool failed"]

\* ---- wrapToolWithAbortSignal ---------------------------------------------
\* Variant that wraps without testing that the tool has an execute.
wrapToolWithAbortSignal_NoExecuteTest(fs, ts, tool, abortSignal) ==
  IF abortSignal = undefined
  THEN [fns |-> fs, tools |-> ts, result |-> tool]
  ELSE [fns |-> Append(fs, [kind |-> "wrapped", execute |-> ts[tool].execute,
                            abortSignal |-> abortSignal]),
        tools |-> Append(ts, [ts[tool] EXCEPT !.execute = Len(fs) + 1]),
        result |-> Len(ts) + 1]

\* Variant that assigns the wrapped execute to the tool it was given.
wrapToolWithAbortSignal_InPlace(fs, ts, tool, abortSignal) ==
  IF abortSignal = undefined
  THEN [fns |-> fs, tools |-> ts, result |-> tool]
  ELSE IF ts[tool].execute = undefined
  THEN [fns |-> fs, tools |-> ts, result |-> tool]
  ELSE [fns |-> Append(fs, [kind |-> "wrapped", execute |-> ts[tool].execute,
                            abortSignal |-> abortSignal]),
        tools |-> [ts EXCEPT ![tool].execute = Len(fs) + 1],
        result |-> tool]

\* Variant that, given a tool whose execute is already a wrapped one, captures
\* the execute that one had captured.
wrapToolWithAbortSignal_Rebind(fs, ts, tool, abortSignal) ==
  IF abortSignal = undefined
  THEN [fns |-> fs, tools |-> ts, result |-> tool]
  ELSE IF ts[tool].execute = undefined
  THEN [fns |-> fs, tools |-> ts, result |-> tool]
  ELSE [fns |-> Append(fs, [kind |-> "wrapped",
                            execute |-> IF fs[ts[tool].execute].kind = "wrapped"
                                        THEN fs[ts[tool].execute].execute
                                        ELSE ts[tool].execute,
                            abortSignal |-> abortSignal]),
        tools |-> Append(ts, [ts[tool] EXCEPT !.execute = Len(fs) + 1]),
        result |-> Len(ts) + 1]

\* Returns the tool itself, or allocates the closure of line 68 and a new
\* tool object that spreads the original's fields around it.
wrapToolWithAbortSignal(fs, ts, tool, abortSignal) ==
  IF abortSignal = undefined
  THEN [fns |-> fs, tools |-> ts, result |-> tool]
  ELSE LET execute == ts[tool].execute
       IN IF execute = undefined
          THEN [fns |-> fs, tools |-> ts, result |-> tool]
          ELSE LET closure == [kind |-> "wrapped", execute |-> execute,
                               abortSignal |-> abortSignal]
                   wrapped == [ts[tool] EXCEPT !.execute = Len(fs) + 1]
               IN [fns |-> Append(fs, closure),
                   tools |-> Append(ts, wrapped),
                   result |-> Len(ts) + 1]

\* Variant without the check of line 70.
CombinedAborted_NoCheck(sigs, combined) == FALSE

\* if (combined?.aborted)
CombinedAborted(sigs, combined) ==
  IF combined = undefined THEN FALSE ELSE Aborted(sigs, combined)

\* Variant that hands the caller's per-call signal on.
DelegateArgs_PerCall(args, combined) ==
  [toolCallId |-> args.toolCallId, params |-> args.params,
   signal |-> args.signal, onUpdate |-> args.onUpdate]

\* The arguments of execute(toolCallId, params, combined, onUpdate).
DelegateArgs(args, combined) ==
  [toolCallId |-> args.toolCallId, params |-> args.params,
   signal |-> combined, onUpdate |-> args.onUpdate]

\* Variant that reports an AbortError for any outcome once combined is aborted.
AwaitOutcome_Translate(sigs, combined, callee) ==
  IF callee.outcome.status = "pending"
  THEN Pending
  ELSE IF combined # undefined /\ Aborted(sigs, combined)
  THEN Rejected(throwAbortError)
  ELSE callee.outcome

\* Variant that races the underlying promise against the combined signal.
AwaitOutcome_Race(sigs, combined, callee) ==
  IF callee.outcome.status = "pending"
  THEN IF combined # undefined /\ Aborted(sigs, combined)
       THEN Rejected(throwAbortError)
       ELSE Pending
  ELSE callee.outcome

\* Variant that continues only when the underlying promise is fulfilled.
AwaitOutcome_ThenOnly(sigs, combined, callee) ==
  IF callee.outcome.status = "fulfilled" THEN callee.outcome ELSE Pending

\* return await execute(...): the wrapped call stays pending while the promise
\* of the underlying execute is pending and then takes its outcome.
AwaitOutcome(sigs, combined, callee) ==
  IF callee.outcome.status = "pending" THEN Pending ELSE callee.outcome

\* One invocation of function f with args, in heap state st = [signals, calls,
\* callCount].  The tool's own execute starts running (its promise settles in a
\* later step).  A wrapped execute runs lines 69-73 up to the await: combine,
\* check, then the invocation of the captured execute, all without suspending.
RECURSIVE Invoke(_, _, _)
Invoke(st, f, args) ==
  LET idx == Len(st.calls) + 1
      counted == [st.callCount EXCEPT ![f] = @ + 1]
      frame == [fn |-> f, toolCallId |-> args.toolCallId, params |-> args.params,
                signal |-> args.signal, onUpdate |-> args.onUpdate,
                outcome |-> Pending, awaits |-> 0, combined |-> undefined]
  IN IF fns[f].kind = "base"
     THEN [signals |-> st.signals, calls |-> Append(st.calls, frame), callCount |-> counted]
     ELSE LET c == combineAbortSignals(st.signals, args.signal, fns[f].abortSignal)
              combined == c.result
          IN IF c.error # NoError
             THEN [signals |-> c.signals,
                   calls |-> Append(st.calls, [frame EXCEPT !.outcome = Rejected(c.error)]),
                   callCount |-> counted]
             ELSE IF CombinedAborted(c.signals, combined)
             THEN [signals |-> c.signals,
                   calls |-> Append(st.calls,
                              [frame EXCEPT !.combined = combined,
                                            !.outcome = Rejected(throwAbortError)]),
                   callCount |-> counted]
             ELSE Invoke([signals |-> c.signals,
                          calls |-> Append(st.calls,
                                     [frame EXCEPT !.combined = combined,
                                                   !.awaits = idx + 1]),
                          callCount |-> counted],
                         fns[f].execute,
                         DelegateArgs(args, combined))

\* Number of call records one call of f can create.
RECURSIVE Depth(_)
Depth(f) == IF fns[f].kind = "base" THEN 1 ELSE 1 + Depth(fns[f].execute)

\* Sources bound to tools as ambient signals, and sources passed per call; one
\* source serves in both roles.
AmbientSignals == 1..(NumSources - 1)
PerCallSignals == 2..NumSources

NoReturn == [op |-> "none", a |-> 0, b |-> 0, result |-> 0]

\* ---- initial state -------------------------------------------------------
Inputs ==
  { [toolCallId |-> "call-1", params |-> "p1", onUpdate |-> undefined],
    [toolCallId |-> "call-2", params |-> "p2", onUpdate |-> 1] }

\* n pending source signals; the last one is of another realm if foreign.
RECURSIVE Sources(_, _)
Sources(n, foreign) ==
  IF n = 0
  THEN << >>
  ELSE Append(Sources(n - 1, FALSE), NewSignal(~ foreign))

\* Objects that fail isRealAbortSignal: a signal of another realm, an instance
\* without removeEventListener, an object without addEventListener.
Malformed ==
  { [NewSignal(FALSE) EXCEPT !.props = SignalProps],
    [NewSignal(TRUE) EXCEPT !.props = SignalProps \ {"removeEventListener"}],
    [NewSignal(FALSE) EXCEPT !.props = SignalProps \ {"addEventListener"}] }

Init ==
  /\ hasAny \in BOOLEAN
  /\ \E foreign \in (IF hasAny THEN BOOLEAN ELSE {FALSE}) :
       signals = Sources(NumSources, foreign)
  /\ fns = << [kind |-> "base", execute |-> undefined, abortSignal |-> undefined] >>
  /\ tools = << [name |-> "echo", description |-> "returns its params", execute |-> 1],
                [name |-> "meta", description |-> "metadata only", execute |-> undefined] >>
  /\ calls = << >>
  /\ callCount = << 0 >>
  /\ last = NoReturn

\* As Init, with a malformed object in place of the last source.
InitMalformed ==
  /\ hasAny \in BOOLEAN
  /\ \E obj \in Malformed : signals = Append(Sources(NumSources - 1, FALSE), obj)
  /\ fns = << [kind |-> "base", execute |-> undefined, abortSignal |-> undefined] >>
  /\ tools = << [name |-> "echo", description |-> "returns its params", execute |-> 1],
                [name |-> "meta", description |-> "metadata only", execute |-> undefined] >>
  /\ calls = << >>
  /\ callCount = << 0 >>
  /\ last = NoReturn

\* ---- actions -------------------------------------------------------------
\* The owner of source signal s aborts it.
Abort(s) ==
  /\ ~ signals[s].aborted
  /\ signals' = SignalAbort(signals, s)
  /\ last' = NoReturn
  /\ UNCHANGED <<hasAny, fns, tools, calls, callCount>>

\* A direct call combineAbortSignals(a, b), which returns or throws.
Combine(a, b) ==
  LET c == combineAbortSignals(signals, a, b)
  IN /\ Len(c.signals) <= MaxSignals
     /\ signals' = c.signals
     /\ last' = [op |-> IF c.error = NoError THEN "combine" ELSE "combine threw",
                 a |-> a, b |-> b, result |-> c.result]
     /\ UNCHANGED <<hasAny, fns, tools, calls, callCount>>

\* Both ways of combining two pending inputs that pass line 44, applied to the
\* same inputs: AbortSignal.any (line 45) first, then lines 48-52 as a host
\* without AbortSignal.any runs them.  The two results are adjacent signals.
CombineBothPaths(a, b) ==
  /\ hasAny
  /\ ~ Aborted(signals, a) /\ ~ Aborted(signals, b)
  /\ isRealAbortSignal(signals, a) /\ isRealAbortSignal(signals, b)
  /\ LET native == AbortSignalAny(signals, <<a, b>>)
         manual == ManualCombine(native.signals, a, b)
     IN /\ Len(manual.signals) <= PathSignals
        /\ signals' = manual.signals
        /\ last' = [op |-> "paths", a |-> a, b |-> b, result |-> native.result]
  /\ UNCHANGED <<hasAny, fns, tools, calls, callCount>>

\* wrapToolWithAbortSignal(tool, abortSignal), while fewer than maxFns execute
\* functions exist.
WrapUpTo(maxFns, tool, abortSignal) ==
  LET w == wrapToolWithAbortSignal(fns, tools, tool, abortSignal)
  IN /\ Len(w.fns) <= maxFns
     /\ fns' = w.fns
     /\ tools' = w.tools
     /\ callCount' = IF Len(w.fns) > Len(fns) THEN Append(callCount, 0) ELSE callCount
     /\ last' = [op |-> "wrap", a |-> tool, b |-> abortSignal, result |-> w.result]
     /\ UNCHANGED <<signals, hasAny, calls>>

\* wrapToolWithAbortSignal(tool, abortSignal).
Wrap(tool, abortSignal) == WrapUpTo(MaxFns, tool, abortSignal)

\* A caller invokes the execute of a tool that wrapToolWithAbortSignal built:
\* tools[tool].execute(toolCallId, params, signal, onUpdate), within maxCalls
\* call records and maxSignals signals.
CallUpTo(maxCalls, maxSignals, tool, input, signal) ==
  /\ tools[tool].execute # undefined
  /\ fns[tools[tool].execute].kind = "wrapped"
  /\ Len(calls) + Depth(tools[tool].execute) <= maxCalls
  /\ LET st == Invoke([signals |-> signals, calls |-> calls, callCount |-> callCount],
                      tools[tool].execute,
                      [toolCallId |-> input.toolCallId, params |-> input.params,
                       signal |-> signal, onUpdate |-> input.onUpdate])
     IN /\ Len(st.signals) <= maxSignals
        /\ signals' = st.signals
        /\ calls' = st.calls
        /\ callCount' = st.callCount
        /\ last' = NoReturn
  /\ UNCHANGED <<hasAny, fns, tools>>

Call(tool, input, signal) == CallUpTo(MaxCalls, MaxSignals, tool, input, signal)

\* The promise of the tool's own execute settles: it returns its params, fails
\* with its own error, or, having seen its signal aborted, fails with an
\* AbortError of its own.
SettleUnderlying(c) ==
  /\ fns[calls[c].fn].kind = "base"
  /\ calls[c].outcome.status = "pending"
  /\ \E o \in {Fulfilled(calls[c].params), Rejected(ToolError)}
            \cup (IF CombinedAborted(signals, calls[c].signal)
                  THEN {Rejected(throwAbortError)} ELSE {}) :
       calls' = [calls EXCEPT ![c].outcome = o]
  /\ last' = NoReturn
  /\ UNCHANGED <<signals, hasAny, fns, tools, callCount>>

\* The await of line 73 resumes the wrapped call c.
Resume(c) ==
  /\ fns[calls[c].fn].kind = "wrapped"
  /\ calls[c].outcome.status = "pending"
  /\ calls[c].awaits # 0
  /\ LET o == AwaitOutcome(signals, calls[c].combined, calls[calls[c].awaits])
     IN /\ o.status # "pending"
        /\ calls' = [calls EXCEPT ![c].outcome = o]
  /\ last' = NoReturn
  /\ UNCHANGED <<signals, hasAny, fns, tools, callCount>>

\* Tools that have an execute.
ExecTools == {t \in DOMAIN tools : tools[t].execute # undefined}

\* Ambient signals are bound to tools that can execute, the resulting tools are
\* called, sources are aborted and promises settle, in any order.
Next ==
  \/ \E s \in 1..NumSources : Abort(s)
  \/ \E t \in ExecTools, s \in AmbientSignals : Wrap(t, s)
  \/ \E t \in DOMAIN tools, i \in Inputs, s \in {undefined} \cup PerCallSignals : Call(t, i, s)
  \/ \E c \in DOMAIN calls : SettleUnderlying(c)
  \/ \E c \in DOMAIN calls : Resume(c)

Spec == Init /\ [][Next]_vars

\* combineAbortSignals exercised on its own: direct calls on the sources (or
\* undefined), interleaved with aborts of the sources.
NextCombine ==
  \/ \E s \in 1..NumSources : Abort(s)
  \/ \E a \in 0..NumSources, b \in 0..NumSources : Combine(a, b)

SpecCombine == Init /\ [][NextCombine]_vars

\* wrapToolWithAbortSignal exercised on its own, on every tool and with and
\* without an ambient signal.
NextWrap ==
  \/ \E s \in 1..NumSources : Abort(s)
  \/ \E t \in DOMAIN tools, s \in {undefined} \cup AmbientSignals : Wrap(t, s)

SpecWrap == Init /\ [][NextWrap]_vars

\* One ambient signal (the first source) bound to the first tool several
\* times, and the resulting tools called with per-call signals while earlier
\* calls are still running.
SharedFns     == 3    \* the tool's own execute plus wrapped executes
SharedCalls   == 4    \* call records: two wrapped calls in flight
SharedSignals == 5    \* sources plus one derived signal per call

FirstInput == [toolCallId |-> "call-1", params |-> "p1", onUpdate |-> undefined]

NextShared ==
  \/ \E s \in 1..NumSources : Abort(s)
  \/ WrapUpTo(SharedFns, 1, 1)
  \/ \E t \in DOMAIN tools, s \in PerCallSignals :
       CallUpTo(SharedCalls, SharedSignals, t, FirstInput, s)
  \/ \E c \in DOMAIN calls : SettleUnderlying(c)
  \/ \E c \in DOMAIN calls : Resume(c)

SpecShared == Init /\ [][NextShared]_vars

\* The two combination paths side by side on the same sources.
NextPaths ==
  \/ \E s \in 1..NumSources : Abort(s)
  \/ \E a \in 1..NumSources, b \in 1..NumSources : CombineBothPaths(a, b)

SpecPaths == Init /\ [][NextPaths]_vars

\* combineAbortSignals given a malformed object.
SpecMalformed == InitMalformed /\ [][NextCombine]_vars

\* Wrapped calls under the scheduling of the host: a settled promise resumes
\* the function awaiting it (the microtask queue is drained), and the tool's own
\* execute, once invoked, settles.  The first source is the ambient signal and
\* the second the per-call signal.
LiveFns     == 3    \* the tool's own execute plus wrapped executes
LiveCalls   == 3    \* call records
LiveSignals == 5    \* sources plus derived signals

NextLive ==
  \/ \E s \in {1, 2} : Abort(s)
  \/ \E t \in ExecTools : WrapUpTo(LiveFns, t, 1)
  \/ \E t \in DOMAIN tools, s \in {undefined, 2} :
       CallUpTo(LiveCalls, LiveSignals, t, FirstInput, s)
  \/ \E c \in DOMAIN calls : SettleUnderlying(c)
  \/ \E c \in DOMAIN calls : Resume(c)

Fairness ==
  \A c \in 1..LiveCalls :
    /\ WF_vars(c \in DOMAIN calls /\ SettleUnderlying(c))
    /\ WF_vars(c \in DOMAIN calls /\ Resume(c))

SpecLive == Init /\ [][NextLive]_vars /\ Fairness

\* wrap(wrap(tool, A), B): the first tool is wrapped with the first source, the
\* tool that results is wrapped with the second source, and the tool that
\* results from that is called with the third source or without a signal.
ComposeFns     == 3   \* the tool's own execute and two wrapped executes
ComposeCalls   == 6   \* call records: room for two calls of three records
ComposeSignals == 6   \* sources plus the derived signals of two calls

NextCompose ==
  \/ \E s \in {1, 2, 3} : Abort(s)
  \/ Len(fns) = 1 /\ WrapUpTo(ComposeFns, 1, 1)
  \/ Len(fns) = 2 /\ WrapUpTo(ComposeFns, Len(tools), 2)
  \/ \E s \in {undefined, 3} :
       Len(fns) = 3 /\ CallUpTo(ComposeCalls, ComposeSignals, Len(tools), FirstInput, s)
  \/ \E c \in DOMAIN calls : SettleUnderlying(c)
  \/ \E c \in DOMAIN calls : Resume(c)

SpecCompose ==
  /\ Init /\ [][NextCompose]_vars
  /\ \A c \in 1..ComposeCalls : WF_vars(c \in DOMAIN calls /\ Resume(c))

\* ---- properties ----------------------------------------------------------
\* Call records created by the step.
NewCalls == (Len(calls) + 1)..Len(calls')

\* The sources a derived signal was combined from.
IsDerived(d) == signals[d].origin # <<>>
OriginAborted(d) ==
  signals[signals[d].origin[1]].aborted \/ signals[signals[d].origin[2]].aborted

IsWrappedCall(i) == fns[calls[i].fn].kind = "wrapped"

\* C1: a call of a wrapped execute made while the ambient signal or the
\* per-call signal is already aborted is rejected with the error named
\* "AbortError" with message "Aborted", invokes nothing, and leaves the call
\* counter of the underlying execute unchanged.  (A call step changes no
\* aborted flag, so the flags after the step are those at the call.)
C1_AbortedBeforeCall ==
  [][\A i \in NewCalls :
       LET c == calls'[i]
           f == fns[c.fn]
       IN (/\ f.kind = "wrapped"
           /\ \/ signals'[f.abortSignal].aborted
              \/ (c.signal # undefined /\ signals'[c.signal].aborted))
          => /\ c.outcome = [status |-> "rejected", result |-> "",
                             error |-> [name |-> "AbortError", message |-> "Aborted"]]
             /\ c.awaits = 0
             /\ i = Len(calls')
             /\ callCount'[f.execute] = callCount[f.execute]]_vars

\* Witness of C1: a wrapped call rejected with AbortError by the check, its
\* ambient signal aborted, the underlying execute never invoked.
C1_Witness ==
  \E i \in DOMAIN calls :
    /\ IsWrappedCall(i)
    /\ signals[fns[calls[i].fn].abortSignal].aborted
    /\ calls[i].signal = undefined
    /\ calls[i].outcome = Rejected(throwAbortError)
    /\ calls[i].awaits = 0
    /\ callCount[fns[calls[i].fn].execute] = 0

\* C2: a signal derived from two pending sources is pending when created, is
\* aborted in every later state exactly when one of its sources is aborted,
\* and never goes back to pending.
C2_CombinedIsOr ==
  /\ [](\A d \in DOMAIN signals : IsDerived(d) => (signals[d].aborted <=> OriginAborted(d)))
  /\ [][/\ \A d \in DOMAIN signals : signals[d].aborted => signals'[d].aborted
        /\ \A d \in DOMAIN signals' : d \notin DOMAIN signals => ~ signals'[d].aborted]_vars

\* Witness of C2: a derived signal aborted through its second source alone.
C2_Witness ==
  \E d \in DOMAIN signals :
    /\ IsDerived(d)
    /\ signals[d].path = "manual"
    /\ signals[d].aborted
    /\ ~ signals[signals[d].origin[1]].aborted
    /\ signals[signals[d].origin[2]].aborted

\* C3: a derived signal dispatches its abort event at most once, and exactly
\* once when both of its sources have been aborted.
C3_TriggeredOnce ==
  \A d \in DOMAIN signals :
    IsDerived(d) =>
      /\ signals[d].fired <= 1
      /\ (/\ signals[signals[d].origin[1]].aborted
          /\ signals[signals[d].origin[2]].aborted) => signals[d].fired = 1

\* Witness of C3: both distinct sources of a derived signal aborted, one event.
C3_Witness ==
  \E d \in DOMAIN signals :
    /\ IsDerived(d)
    /\ signals[d].path = "manual"
    /\ signals[d].origin[1] # signals[d].origin[2]
    /\ signals[signals[d].origin[1]].aborted
    /\ signals[signals[d].origin[2]].aborted
    /\ signals[d].fired = 1

\* C4: a call of a wrapped execute whose combined signal is not aborted invokes
\* the underlying execute exactly once, with the same toolCallId, params and
\* onUpdate, and with the combined signal: the ambient signal when no per-call
\* signal was given, otherwise a new signal derived from the two.
C4_Delegates ==
  [][\A i \in NewCalls :
       LET c == calls'[i]
           f == fns[c.fn]
       IN (/\ f.kind = "wrapped"
           /\ c.combined # undefined
           /\ ~ signals'[c.combined].aborted)
          => /\ c.awaits = i + 1
             /\ i + 1 \in DOMAIN calls'
             /\ calls'[i + 1].fn = f.execute
             /\ calls'[i + 1].toolCallId = c.toolCallId
             /\ calls'[i + 1].params = c.params
             /\ calls'[i + 1].onUpdate = c.onUpdate
             /\ calls'[i + 1].signal = c.combined
             /\ callCount'[f.execute] = callCount[f.execute] + 1
             /\ IF c.signal = undefined
                THEN c.combined = f.abortSignal
                ELSE /\ c.combined \notin DOMAIN signals
                     /\ signals'[c.combined].origin = <<c.signal, f.abortSignal>>]_vars

\* Witness of C4: a running wrapped call that passed a derived signal, the
\* second input's toolCallId, params and onUpdate to the underlying execute.
C4_Witness ==
  \E i \in DOMAIN calls :
    /\ IsWrappedCall(i)
    /\ calls[i].awaits # 0
    /\ calls[i].signal # undefined
    /\ calls[i].toolCallId = "call-2"
    /\ calls[calls[i].awaits].onUpdate = 1
    /\ calls[calls[i].awaits].signal = calls[i].combined
    /\ IsDerived(calls[i].combined)
    /\ callCount[fns[calls[i].fn].execute] = 1

\* C5: a settled wrapped call that invoked the underlying execute has exactly
\* the outcome of that invocation.
C5_OutcomeUnchanged ==
  \A i \in DOMAIN calls :
    (IsWrappedCall(i) /\ calls[i].awaits # 0 /\ calls[i].outcome.status # "pending")
      => calls[i].outcome = calls[calls[i].awaits].outcome

\* Witness of C5: the combined signal was aborted while the underlying execute
\* ran, the underlying failed with its own error, and the wrapped call reports
\* that error.
C5_Witness ==
  \E i \in DOMAIN calls :
    /\ IsWrappedCall(i)
    /\ calls[i].awaits # 0
    /\ signals[calls[i].combined].aborted
    /\ calls[i].outcome = Rejected(ToolError)

\* A source that the step aborts.
AbortedInStep(s) == s \in DOMAIN signals /\ ~ signals[s].aborted /\ signals'[s].aborted

\* C6: a wrapped call that invoked the underlying execute stays pending while
\* that invocation is pending, and a failure of it with AbortError is the
\* underlying's; a step that aborts a source changes no call record and no
\* call counter, and makes the signal handed to the underlying execute of
\* every call combining that source aborted.
C6_NoInterrupt ==
  /\ [](\A i \in DOMAIN calls :
          (IsWrappedCall(i) /\ calls[i].awaits # 0) =>
            /\ calls[calls[i].awaits].outcome.status = "pending"
                 => calls[i].outcome.status = "pending"
            /\ calls[i].outcome.error.name = "AbortError"
                 => calls[calls[i].awaits].outcome.error.name = "AbortError")
  /\ [][(\E s \in DOMAIN signals : AbortedInStep(s)) =>
          /\ calls' = calls
          /\ callCount' = callCount
          /\ \A i \in DOMAIN calls :
               (/\ IsWrappedCall(i)
                /\ calls[i].awaits # 0
                /\ \/ AbortedInStep(fns[calls[i].fn].abortSignal)
                   \/ AbortedInStep(calls[i].signal))
               => signals'[calls[calls[i].awaits].signal].aborted]_vars

\* Witness of C6: the per-call signal was aborted after the invocation; the
\* underlying execute and the wrapped call are both still pending.
C6_Witness ==
  \E i \in DOMAIN calls :
    /\ IsWrappedCall(i)
    /\ calls[i].awaits # 0
    /\ calls[i].signal # undefined
    /\ signals[calls[i].signal].aborted
    /\ signals[calls[calls[i].awaits].signal].aborted
    /\ calls[calls[i].awaits].outcome.status = "pending"
    /\ calls[i].outcome.status = "pending"

\* C7: combineAbortSignals with no input returns undefined, with one input
\* (in either position) returns that input; in both cases no signal is
\* created and no listener is registered.
C7_SingleInput ==
  [][last'.op = "combine" =>
       /\ (last'.a = undefined /\ last'.b = undefined)
            => (last'.result = undefined /\ signals' = signals)
       /\ (last'.a # undefined /\ last'.b = undefined)
            => (last'.result = last'.a /\ signals' = signals)
       /\ (last'.a = undefined /\ last'.b # undefined)
            => (last'.result = last'.b /\ signals' = signals)]_vars

\* Witness of C7: a pending signal given alone, as second argument, came back.
C7_Witness ==
  /\ last.op = "combine"
  /\ last.a = undefined
  /\ last.b # undefined
  /\ last.result = last.b
  /\ ~ signals[last.b].aborted
  /\ signals[last.b].listeners = <<>>

\* C8: combineAbortSignals with two inputs of which one is aborted returns a
\* if a is aborted and b otherwise, creates no signal and registers no
\* listener.
C8_ShortCircuit ==
  [][(/\ last'.op = "combine"
      /\ last'.a # undefined
      /\ last'.b # undefined
      /\ (signals[last'.a].aborted \/ signals[last'.b].aborted))
     => /\ last'.result = (IF signals[last'.a].aborted THEN last'.a ELSE last'.b)
        /\ signals' = signals]_vars

\* Witness of C8: two different aborted inputs, the first one returned.
C8_Witness ==
  /\ last.op = "combine"
  /\ last.a # undefined
  /\ last.b # undefined
  /\ last.a # last.b
  /\ signals[last.a].aborted
  /\ signals[last.b].aborted
  /\ last.result = last.a
  /\ Len(signals) = NumSources

\* C9: wrapToolWithAbortSignal returns the tool it was given, and allocates
\* nothing, when abortSignal is undefined or the tool has no execute; otherwise
\* it returns a tool that did not exist, with another execute.
C9_WrapIdentity ==
  [][last'.op = "wrap" =>
       IF last'.b = undefined \/ tools[last'.a].execute = undefined
       THEN /\ last'.result = last'.a
            /\ tools' = tools
            /\ fns' = fns
       ELSE /\ last'.result \notin DOMAIN tools
            /\ last'.result \in DOMAIN tools'
            /\ tools'[last'.result].execute # tools[last'.a].execute
            /\ tools'[last'.result].execute \notin DOMAIN fns]_vars

\* Witness of C9: a tool without execute wrapped with an ambient signal came
\* back as itself.
C9_Witness ==
  /\ last.op = "wrap"
  /\ last.b # undefined
  /\ tools[last.a].execute = undefined
  /\ last.result = last.a

\* C10: no step changes a field of an existing tool or an existing execute
\* function, and the tool a wrap returns has the fields of the tool it was
\* given, with the same values except for execute.
C10_NonDestructive ==
  [][/\ \A t \in DOMAIN tools : t \in DOMAIN tools' /\ tools'[t] = tools[t]
     /\ \A f \in DOMAIN fns : f \in DOMAIN fns' /\ fns'[f] = fns[f]
     /\ last'.op = "wrap" =>
          /\ DOMAIN tools'[last'.result] = DOMAIN tools[last'.a]
          /\ \A k \in DOMAIN tools[last'.a] \ {"execute"} :
               tools'[last'.result][k] = tools[last'.a][k]]_vars

\* Witness of C10: a wrapped tool was built from the first tool and called to
\* completion, and the first tool still has its fields and its own execute.
C10_Witness ==
  /\ \E t \in DOMAIN tools :
       /\ t # 1
       /\ tools[t].execute # undefined
       /\ fns[tools[t].execute].execute = 1
       /\ tools[t].name = tools[1].name
       /\ \E i \in DOMAIN calls :
            calls[i].fn = tools[t].execute /\ calls[i].outcome.status = "fulfilled"
  /\ tools[1] = [name |-> "echo", description |-> "returns its params", execute |-> 1]

\* C11: with one ambient signal bound to several tools and several calls in
\* flight, the combined signal of each call is aborted exactly when that call's
\* own ambient or per-call signal is aborted: aborting the ambient signal
\* aborts every call's combined signal, aborting one call's per-call signal
\* leaves the combined signals of the calls with other per-call signals pending.
C11_CallsIndependent ==
  \A i \in DOMAIN calls :
    (IsWrappedCall(i) /\ calls[i].combined # undefined) =>
      (signals[calls[i].combined].aborted
         <=> \/ signals[fns[calls[i].fn].abortSignal].aborted
             \/ (calls[i].signal # undefined /\ signals[calls[i].signal].aborted))

\* Witness of C11: two calls in flight on two tools sharing the ambient signal;
\* the per-call signal of one was aborted, its combined signal is aborted and
\* the other call's combined signal is pending.
C11_Witness ==
  \E i \in DOMAIN calls, j \in DOMAIN calls :
    /\ IsWrappedCall(i) /\ IsWrappedCall(j)
    /\ calls[i].fn # calls[j].fn
    /\ fns[calls[i].fn].abortSignal = fns[calls[j].fn].abortSignal
    /\ calls[i].awaits # 0 /\ calls[j].awaits # 0
    /\ calls[calls[i].awaits].outcome.status = "pending"
    /\ calls[calls[j].awaits].outcome.status = "pending"
    /\ calls[i].signal # calls[j].signal
    /\ signals[calls[i].signal].aborted
    /\ signals[calls[i].combined].path = "manual"
    /\ signals[calls[i].combined].aborted
    /\ ~ signals[calls[j].combined].aborted

\* Signal s holds a listener that the combination behind derived signal d
\* registered.
HoldsListenerOf(s, d) ==
  \E k \in 1..Len(signals[s].listeners) : signals[s].listeners[k].callback = d

\* C12: once the combined signal of a wrapped call is aborted, or the call
\* has settled, neither the per-call signal nor the ambient signal holds a
\* listener registered by that call's combination.
C12_ListenersRemoved ==
  \A i \in DOMAIN calls :
    (/\ IsWrappedCall(i)
     /\ calls[i].combined # undefined
     /\ IsDerived(calls[i].combined)
     /\ \/ signals[calls[i].combined].aborted
        \/ calls[i].outcome.status # "pending")
    => /\ ~ HoldsListenerOf(fns[calls[i].fn].abortSignal, calls[i].combined)
       /\ ~ HoldsListenerOf(calls[i].signal, calls[i].combined)

\* Signals n and n + 1 were derived from the same inputs, n by AbortSignal.any
\* and n + 1 by lines 48-52.
IsPathPair(n) ==
  /\ n \in DOMAIN signals /\ n + 1 \in DOMAIN signals
  /\ signals[n].path = "native" /\ signals[n + 1].path = "manual"
  /\ signals[n].origin = signals[n + 1].origin

\* C13: for the same pending inputs and the same aborts of them, the signal
\* built by AbortSignal.any and the signal built by lines 48-52 are aborted in
\* the same states and have dispatched the same number of abort events.
C13_PathsEquivalent ==
  \A n \in DOMAIN signals :
    IsPathPair(n) =>
      /\ signals[n].aborted = signals[n + 1].aborted
      /\ signals[n].fired = signals[n + 1].fired

\* Witness of C13: a pair whose second input alone was aborted; both signals
\* are aborted and each dispatched one event.
C13_Witness ==
  \E n \in DOMAIN signals :
    /\ IsPathPair(n)
    /\ ~ signals[signals[n].origin[1]].aborted
    /\ signals[signals[n].origin[2]].aborted
    /\ signals[n].aborted /\ signals[n + 1].aborted
    /\ signals[n].fired = 1 /\ signals[n + 1].fired = 1

\* C14: combineAbortSignals called with two pending inputs of which one fails
\* isRealAbortSignal returns, without throwing, a new signal built by lines
\* 48-52, never one built by AbortSignal.any.
C14_MalformedFallsBack ==
  [][(/\ last'.op \in {"combine", "combine threw"}
      /\ last'.a # undefined /\ last'.b # undefined
      /\ ~ signals[last'.a].aborted /\ ~ signals[last'.b].aborted
      /\ (~ isRealAbortSignal(signals, last'.a) \/ ~ isRealAbortSignal(signals, last'.b)))
     => /\ last'.op = "combine"
        /\ last'.result \notin DOMAIN signals
        /\ last'.result \in DOMAIN signals'
        /\ signals'[last'.result].path = "manual"]_vars

\* C15: every call of a wrapped execute settles, given that the tool's own
\* execute settles once invoked; and a call made while its ambient or per-call
\* signal is aborted is rejected in the step of the call, awaiting nothing.
\* (A call step changes no aborted flag; the signal an inner wrapped execute
\* receives exists only after the step.)
C15_Settles ==
  /\ \A i \in 1..LiveCalls :
       (i \in DOMAIN calls /\ IsWrappedCall(i)) ~>
         (i \in DOMAIN calls /\ calls[i].outcome.status # "pending")
  /\ [][\A i \in NewCalls :
          (/\ fns[calls'[i].fn].kind = "wrapped"
           /\ \/ signals'[fns[calls'[i].fn].abortSignal].aborted
              \/ (calls'[i].signal # undefined /\ signals'[calls'[i].signal].aborted))
          => /\ calls'[i].outcome.status = "rejected"
             /\ calls'[i].awaits = 0
             /\ i = Len(calls')]_vars

\* A call that awaited the tool's own execute has settled, and another call was
\* rejected without awaiting.
C15_Witness ==
  \E i \in DOMAIN calls, j \in DOMAIN calls :
    /\ IsWrappedCall(i) /\ calls[i].awaits # 0 /\ calls[i].outcome.status # "pending"
    /\ IsWrappedCall(j) /\ calls[j].awaits = 0
    /\ calls[j].outcome = Rejected(throwAbortError)

\* C16: lines 69-73 up to the await run as one step.  The record of an execute
\* invoked by a wrapped execute is created in the step that creates the record
\* of its caller, no aborted flag changes in that step, and the signal the
\* invoked execute receives is the caller's combined signal, not aborted when
\* the step ends.
C16_InvokedUnaborted ==
  [][/\ \A j \in DOMAIN calls : calls'[j].awaits = calls[j].awaits
     /\ \A j \in NewCalls :
          calls'[j].awaits # 0 =>
            /\ calls'[j].awaits = j + 1
            /\ calls'[j].awaits \in NewCalls
            /\ calls'[calls'[j].awaits].signal = calls'[j].combined
            /\ calls'[j].combined \in DOMAIN signals'
            /\ ~ signals'[calls'[j].combined].aborted
            /\ \A s \in DOMAIN signals : signals'[s].aborted = signals[s].aborted]_vars

\* The tool's own execute is running, invoked by a wrapped execute with a
\* signal derived from a per-call signal and the ambient signal, all pending.
C16_Witness ==
  \E j \in DOMAIN calls :
    /\ IsWrappedCall(j) /\ calls[j].awaits # 0
    /\ calls[j].signal # undefined
    /\ fns[calls[calls[j].awaits].fn].kind = "base"
    /\ calls[calls[j].awaits].outcome.status = "pending"
    /\ IsDerived(calls[calls[j].awaits].signal)
    /\ ~ signals[calls[calls[j].awaits].signal].aborted

\* The execute of the tool wrapped twice, the ambient signals A and B of the
\* two wraps, the record that starts the call to which record k belongs, and
\* whether one of A, B and the per-call signal S of that call is aborted.
IsOuter(f) == fns[f].kind = "wrapped" /\ \E g \in 1..(f - 1) : fns[g].kind = "wrapped"
InnerOf(f) == CHOOSE g \in 1..(f - 1) : fns[g].kind = "wrapped"
TopOf(cs, k) ==
  CHOOSE j \in 1..k : /\ IsOuter(cs[j].fn)
                      /\ \A m \in (j + 1)..k : ~ IsOuter(cs[m].fn)
AnyAborted(sigs, f, S) ==
  \/ sigs[fns[InnerOf(f)].abortSignal].aborted
  \/ sigs[fns[f].abortSignal].aborted
  \/ (S # undefined /\ sigs[S].aborted)
ReachedTool(j) ==
  \E k \in j..Len(calls) : fns[calls[k].fn].kind = "base" /\ TopOf(calls, k) = j

\* C17: a call of wrap(wrap(tool, A), B).execute with per-call signal S.  If
\* one of A, B, S is aborted at the call, the tool's own execute is not invoked
\* and the call ends rejected with the AbortError; otherwise the tool's own
\* execute is invoked once, and in every later state the signal it received
\* is aborted exactly when one of A, B, S is.
C17_Composes ==
  /\ [][\A j \in NewCalls :
          IsOuter(calls'[j].fn) =>
            /\ j = Len(calls) + 1
            /\ \A f \in DOMAIN fns :
                 fns[f].kind = "base" =>
                   callCount'[f] = callCount[f]
                     + (IF AnyAborted(signals, calls'[j].fn, calls'[j].signal) THEN 0 ELSE 1)
            /\ fns[calls'[Len(calls')].fn].kind = "base"
                 <=> ~ AnyAborted(signals, calls'[j].fn, calls'[j].signal)]_vars
  /\ [](\A k \in DOMAIN calls :
          fns[calls[k].fn].kind = "base" =>
            (signals[calls[k].signal].aborted
               <=> AnyAborted(signals, calls[TopOf(calls, k)].fn,
                              calls[TopOf(calls, k)].signal)))
  /\ \A j \in 1..ComposeCalls :
       (j \in DOMAIN calls /\ IsOuter(calls[j].fn) /\ ~ ReachedTool(j))
         ~> (j \in DOMAIN calls /\ calls[j].outcome = Rejected(throwAbortError))

\* Two calls of the tool wrapped twice: one reached the tool's own execute,
\* whose signal is now aborted because A was aborted afterwards with B and S
\* pending; the other, made after that, was rejected by the inner wrapper.
C17_Witness ==
  \E j \in DOMAIN calls, k \in DOMAIN calls, n \in DOMAIN calls :
    /\ IsOuter(calls[j].fn) /\ fns[calls[k].fn].kind = "base" /\ TopOf(calls, k) = j
    /\ calls[j].signal # undefined
    /\ signals[calls[k].signal].aborted
    /\ signals[fns[InnerOf(calls[j].fn)].abortSignal].aborted
    /\ ~ signals[fns[calls[j].fn].abortSignal].aborted
    /\ ~ signals[calls[j].signal].aborted
    /\ n > k /\ IsOuter(calls[n].fn) /\ ~ ReachedTool(n)
    /\ calls[n].awaits # 0
    /\ calls[n].outcome = Rejected(throwAbortError)

====
